---- MODULE Spec2Model ----
(***************************************************************************)
(* FastMLX: the model registry (ModelProvider), the chat-completion        *)
(* router, the server-sent-event stream encoders and the tool-call         *)
(* extractor, modelled from src/fastmlx/fastmlx.py and                     *)
(* src/fastmlx/utils.py.                                                    *)
(*                                                                         *)
(* Five specifications share the module:                                   *)
(*   Spec         the HTTP handlers running on one asyncio event loop      *)
(*                against the process-wide ModelProvider;                  *)
(*   SpecLoop     the same handlers, the start and the return of a load    *)
(*                taken as two steps;                                      *)
(*   SpecStream   one run of lm_stream_generator / vlm_stream_generator    *)
(*                pulled by a consumer, a removal running meanwhile;       *)
(*   SpecExtract  handle_function_calls applied to a raw output text;      *)
(*   SpecChat     one chat-completion request, from its JSON body through  *)
(*                validation and the handler to the response.              *)
(***************************************************************************)
EXTENDS Integers, Sequences, FiniteSets, TLC

VARIABLES
    mlx,        \* MLX_AVAILABLE, fixed at import time
    models,     \* ModelProvider.models: model name -> loaded handle
    loads,      \* per name, the number of load_vlm_model / load_lm_model calls
    removes,    \* per name, the number of remove_model calls that returned True
    nextUid,    \* identity of the next handle object created by a load
    clients,    \* per HTTP client, the request in flight and its response
    issued,     \* requests sent so far
    gone,       \* names removed with True and not passed to load_model since
    stream,     \* one stream generator object (SpecStream)
    ext,        \* one handle_function_calls call (SpecExtract)
    call        \* one chat-completion request from body to response (SpecChat)

vars == <<mlx, models, loads, removes, nextUid, clients, issued, gone, stream, ext,
          call>>

None == "None"

----------------------------------------------------------------------------
(* Bounds *)

\* requests sent in one run, and messages in one chat request
MaxRequests == 4
MaxMsgs == 1

\* the HTTP clients whose requests are in flight together
Clients == {"c1", "c2"}

----------------------------------------------------------------------------
(* Model identifiers and what load_config finds for them *)

\* "phi%2B" is a local directory whose name holds a percent sign
ModelIds == {"bunny", "phi", "phi%2B", "missing"}

\* load_config(model_name) raises for a name that resolves to no repository
\* or directory
Resolvable(id) == id \in {"bunny", "phi", "phi%2B", "firefunction-v2"}

\* the model_name values a DELETE request carries: a model name, or a model
\* name written between double quotes
RemoveNames == ModelIds \cup {"\"phi\""}

\* urllib.parse.unquote: a %xx escape becomes the character it encodes, a
\* name without one is unchanged
unquote(name) == IF name = "phi%2B" THEN "phi+" ELSE name

\* str.strip('"'): leading and trailing double quotes removed
strip_quotes(name) == IF name = "\"phi\"" THEN "phi" ELSE name

\* config["model_type"] as stored in the model's config.json
ConfigModelType(id) == IF id = "bunny" THEN "llava-qwen2" ELSE "phi3"

\* MODEL_REMAPPING.get(t, t)
MODEL_REMAPPING(t) ==
    CASE t = "llava-qwen2" -> "llava_bunny"
      [] t = "bunny-llama" -> "llava_bunny"
      [] OTHER -> t

\* MODELS["vlm"]: the sub-packages of mlx_vlm.models
MODELS_vlm == {"llava", "llava_bunny", "paligemma", "idefics2"}

IsVlm(model_type) == model_type \in MODELS_vlm

----------------------------------------------------------------------------
(* ModelProvider *)

\* a handler that does not look at MLX_AVAILABLE
MlxMissingNever(available) == FALSE

\* "if not MLX_AVAILABLE" at the head of chat_completion
MlxMissing(available) == ~available

NeedsLoadAlways(ms, id) == TRUE

\* load_model: "if model_name not in self.models"
NeedsLoad(ms, id) == id \notin DOMAIN ms

\* no handle returned (the call raised, or the request is not a load)
NoHandle == [uid |-> 0, model_type |-> None]

\* load_vlm_model / load_lm_model: a fresh handle object carrying the config
NewHandle(id, uid) ==
    [uid |-> uid, model_type |-> MODEL_REMAPPING(ConfigModelType(id))]

\* self.models[model_name] = handle
Store(ms, id, h) ==
    [x \in (DOMAIN ms) \cup {id} |-> IF x = id THEN h ELSE ms[x]]

\* a load_model that remembers a failed load under the name
load_model_keeping_failure(ms, id, uid) ==
    IF NeedsLoad(ms, id)
    THEN IF mlx /\ Resolvable(id)
         THEN [raised |-> FALSE, loaded |-> TRUE,
               models |-> Store(ms, id, NewHandle(id, uid)),
               handle |-> NewHandle(id, uid)]
         ELSE [raised |-> TRUE, loaded |-> FALSE,
               models |-> Store(ms, id, NoHandle), handle |-> NoHandle]
    ELSE [raised |-> FALSE, loaded |-> FALSE, models |-> ms,
          handle |-> ms[id]]

\* a load_model that hands the handle out without storing it
load_model_not_stored(ms, id, uid) ==
    IF NeedsLoad(ms, id)
    THEN IF mlx /\ Resolvable(id)
         THEN [raised |-> FALSE, loaded |-> TRUE, models |-> ms,
               handle |-> NewHandle(id, uid)]
         ELSE [raised |-> TRUE, loaded |-> FALSE, models |-> ms,
               handle |-> NoHandle]
    ELSE [raised |-> FALSE, loaded |-> FALSE, models |-> ms,
          handle |-> ms[id]]

\* load_model(model_name): the registry after the call, whether a load ran,
\* whether the call raised, and the handle returned.  Without MLX the names
\* load_config / load_lm_model are unbound and the call raises NameError.
load_model(ms, id, uid) ==
    IF NeedsLoad(ms, id)
    THEN IF mlx /\ Resolvable(id)
         THEN [raised |-> FALSE, loaded |-> TRUE,
               models |-> Store(ms, id, NewHandle(id, uid)),
               handle |-> NewHandle(id, uid)]
         ELSE [raised |-> TRUE, loaded |-> FALSE, models |-> ms,
               handle |-> NoHandle]
    ELSE [raised |-> FALSE, loaded |-> FALSE, models |-> ms,
          handle |-> ms[id]]

DeleteNothing(ms, id) == ms

\* a removal that empties the registry
DeleteAll(ms, id) == <<>>

\* a removal that drops whichever entry the dict holds first
DeleteFirst(ms, id) ==
    [x \in (DOMAIN ms) \ {CHOOSE k \in DOMAIN ms : TRUE} |-> ms[x]]

\* del self.models[model_name]
Delete(ms, id) == [x \in (DOMAIN ms) \ {id} |-> ms[x]]

RemovedAlways(ms, id) == TRUE

\* remove_model: "if model_name in self.models" ... return True / return False
Removed(ms, id) == id \in DOMAIN ms

\* remove_model(model_name) under self.lock
\* ("del" of a key that is not in the dict raises KeyError)
remove_model(ms, id) ==
    IF Removed(ms, id)
    THEN [removed |-> TRUE, models |-> Delete(ms, id),
          raised |-> id \notin DOMAIN ms]
    ELSE [removed |-> FALSE, models |-> ms, raised |-> FALSE]

\* get_available_models() under self.lock: list(self.models.keys())
get_available_models(ms) == DOMAIN ms

\* the keys as a list: each key once, in the order the dict holds them
RECURSIVE KeyList(_)
KeyList(keys) ==
    IF keys = {} THEN <<>>
    ELSE LET k == CHOOSE x \in keys : TRUE
         IN <<k>> \o KeyList(keys \ {k})

\* a listing that repeats its entries
models_data_twice(keys) ==
    LET l == KeyList(keys) \o KeyList(keys)
    IN [i \in 1..Len(l) |->
           [id |-> l[i], object |-> "model", owned_by |-> "system"]]

\* list_models: one entry of the OpenAI listing shape per key
models_data(keys) ==
    LET l == KeyList(keys)
    IN [i \in 1..Len(l) |->
           [id |-> l[i], object |-> "model", owned_by |-> "system"]]

----------------------------------------------------------------------------
(* Requests *)

\* ChatMessage.content as sent on the wire: a string, or a list of parts
StrContent == [kind |-> "str", parts |-> <<>>]
ListContent(parts) == [kind |-> "list", parts |-> parts]

TextPart == [type |-> "text", val |-> "t"]
ImagePart(url) == [type |-> "image_url", val |-> url]

Contents == {StrContent, ListContent(<<TextPart, ImagePart("img1")>>)}

Messages == {[role |-> "user", content |-> c] : c \in Contents}

MessageLists == UNION {[1..n -> Messages] : n \in 1..MaxMsgs}

\* ChatCompletionRequest.image: Optional[str]
Images == {None, "test_image"}

ChatRequests ==
    [op : {"chat"}, id : ModelIds, stream : BOOLEAN, image : Images,
     messages : MessageLists]

NoChat == [stream |-> FALSE, image |-> None, messages |-> <<>>]

AdminRequest(op, id) ==
    [op |-> op, id |-> id, stream |-> NoChat.stream, image |-> NoChat.image,
     messages |-> NoChat.messages]

NoRequest == AdminRequest("none", None)

NoResponse ==
    [status |-> 0, removed |-> FALSE, raised |-> FALSE, handle |-> NoHandle,
     listed |-> {}, goneAtList |-> {}, gen |-> 0, peers |-> {}, epoch |-> 0,
     detail |-> None, data |-> <<>>]

\* ChatMessage declares "content: str": the request body is validated against
\* ChatCompletionRequest before chat_completion runs
Validates(req) ==
    \A i \in 1..Len(req.messages) : req.messages[i].content.kind = "str"

----------------------------------------------------------------------------
(* chat_completion *)

\* the inner loop over msg.content: the last image_url part wins
RECURSIVE ScanParts(_, _)
ScanParts(parts, image_url) ==
    IF parts = <<>> THEN image_url
    ELSE ScanParts(Tail(parts),
                   IF Head(parts).type = "image_url" THEN Head(parts).val
                   ELSE image_url)

\* the loop over request.messages, with image_url = None before it
RECURSIVE ScanMessages(_, _)
ScanMessages(msgs, image_url) ==
    IF msgs = <<>> THEN image_url
    ELSE ScanMessages(Tail(msgs),
                      IF Head(msgs).content.kind = "list"
                      THEN ScanParts(Head(msgs).content.parts, image_url)
                      ELSE image_url)

ImageUrl(req) == ScanMessages(req.messages, None)

MissingImageNever(image_url, model_type) == FALSE

\* "if not image_url and model_type in MODELS['vlm']"
MissingImage(image_url, model_type) == image_url = None /\ IsVlm(model_type)

\* The handler after the model is resolved: the HTTP status and the number of
\* Generator invocations (vlm_generate, lm_generate or a started stream).
\* Streaming: the arguments of the stream generator are evaluated first, and
\* request.stream_options raises since ChatCompletionRequest declares no such
\* field, so no generator object is made.  Non-streaming: the Generator runs,
\* then building the response raises (token_length_info is unbound on the
\* multimodal path; on the text path lm_generate returns one string where a
\* pair is unpacked, and handle_function_calls is passed three arguments).
Dispatch(req, model_type) ==
    IF IsVlm(model_type) /\ MissingImage(ImageUrl(req), model_type)
    THEN [status |-> 400, gen |-> 0]
    ELSE IF req.stream
         THEN [status |-> 500, gen |-> 0]
         ELSE [status |-> 500, gen |-> 1]

----------------------------------------------------------------------------
(* The handlers.  Every handler is a coroutine on one event loop; load_model *)
(* is a plain function and the lock of remove_model and                    *)
(* get_available_models is never held across a suspension, so a handler    *)
(* runs from its first line to its response without interleaving.          *)

Respond(p, resp) ==
    clients' = [clients EXCEPT ![p].pc = "done", ![p].resp = resp]

PendingLoadsOf(id, p) ==
    {q \in Clients \ {p} : /\ clients[q].pc = "pending"
                           /\ clients[q].req.op \in {"add", "chat"}
                           /\ clients[q].req.id = id}

\* the effect of one load_model(id) call on the registry and its counters
ApplyLoad(id, r) ==
    /\ models' = r.models
    /\ loads' = IF r.loaded THEN [loads EXCEPT ![id] = @ + 1] ELSE loads
    /\ nextUid' = IF r.loaded THEN nextUid + 1 ELSE nextUid
    /\ gone' = gone \ {id}

Send(p) ==
    /\ clients[p].pc = "idle"
    /\ issued < MaxRequests
    /\ \E req \in ChatRequests
                  \cup {AdminRequest("add", id) : id \in ModelIds}
                  \cup {AdminRequest("remove", name) : name \in RemoveNames}
                  \cup {AdminRequest("list", None)} :
          clients' = [clients EXCEPT ![p] =
                         [pc |-> "pending", req |-> req, resp |-> NoResponse]]
    /\ issued' = issued + 1
    /\ UNCHANGED <<mlx, models, loads, removes, nextUid, gone, stream, ext, call>>

\* POST /v1/models
add_model(p) ==
    /\ clients[p].pc \in {"pending", "loading"}
    /\ clients[p].req.op = "add"
    /\ LET id == clients[p].req.id
           r == load_model(models, id, nextUid)
       IN /\ ApplyLoad(id, r)
          /\ Respond(p, [NoResponse EXCEPT
                            !.status = IF r.raised THEN 500 ELSE 200,
                            !.handle = r.handle,
                            !.peers = PendingLoadsOf(id, p),
                            !.epoch = removes[id]])
    /\ UNCHANGED <<mlx, removes, issued, stream, ext, call>>

\* DELETE /v1/models
remove_model_endpoint(p) ==
    /\ clients[p].pc = "pending"
    /\ clients[p].req.op = "remove"
    /\ LET id == strip_quotes(unquote(clients[p].req.id))
           r == remove_model(models, id)
       IN /\ models' = r.models
          /\ removes' = IF r.removed THEN [removes EXCEPT ![id] = @ + 1]
                        ELSE removes
          /\ gone' = IF r.removed THEN gone \cup {id} ELSE gone
          /\ Respond(p, [NoResponse EXCEPT
                            !.status = IF r.raised THEN 500
                                       ELSE IF r.removed THEN 204 ELSE 404,
                            !.removed = r.removed,
                            !.raised = r.raised,
                            !.detail = IF r.removed THEN None ELSE id])
    /\ UNCHANGED <<mlx, loads, nextUid, issued, stream, ext, call>>

\* GET /v1/models
list_models(p) ==
    /\ clients[p].pc = "pending"
    /\ clients[p].req.op = "list"
    /\ Respond(p, [NoResponse EXCEPT
                      !.status = 200,
                      !.listed = get_available_models(models),
                      !.data = models_data(get_available_models(models)),
                      !.goneAtList = gone])
    /\ UNCHANGED <<mlx, models, loads, removes, nextUid, issued, gone, stream, ext, call>>

\* POST /v1/chat/completions with a body that fails validation
chat_rejected(p) ==
    /\ clients[p].pc = "pending"
    /\ clients[p].req.op = "chat"
    /\ ~Validates(clients[p].req)
    /\ Respond(p, [NoResponse EXCEPT !.status = 422])
    /\ UNCHANGED <<mlx, models, loads, removes, nextUid, issued, gone, stream, ext, call>>

\* POST /v1/chat/completions
chat_completion(p) ==
    /\ clients[p].pc \in {"pending", "loading"}
    /\ clients[p].req.op = "chat"
    /\ Validates(clients[p].req)
    /\ LET req == clients[p].req
           id == req.id
           r == load_model(models, id, nextUid)
       IN IF MlxMissing(mlx)
          THEN /\ Respond(p, [NoResponse EXCEPT
                                 !.status = 500,
                                 !.detail = "MLX library not available"])
               /\ UNCHANGED <<models, loads, nextUid, gone>>
          ELSE /\ ApplyLoad(id, r)
               /\ IF r.raised
                  THEN Respond(p, [NoResponse EXCEPT
                                      !.status = 500,
                                      !.peers = PendingLoadsOf(id, p),
                                      !.epoch = removes[id]])
                  ELSE LET d == Dispatch(req, r.handle.model_type)
                       IN Respond(p, [NoResponse EXCEPT
                                         !.status = d.status,
                                         !.gen = d.gen,
                                         !.handle = r.handle,
                                         !.peers = PendingLoadsOf(id, p),
                                         !.epoch = removes[id]])
    /\ UNCHANGED <<mlx, removes, issued, stream, ext, call>>

\* the client reads its response and is free to send again
Receive(p) ==
    /\ clients[p].pc = "done"
    /\ clients' = [clients EXCEPT ![p] =
                      [pc |-> "idle", req |-> NoRequest, resp |-> NoResponse]]
    /\ UNCHANGED <<mlx, models, loads, removes, nextUid, issued, gone, stream, ext, call>>

NoStream == [pc |-> "off"]
NoExt == [pc |-> "off"]
NoCall == [pc |-> "off"]

Init ==
    /\ mlx \in BOOLEAN
    /\ models = <<>>
    /\ loads = [id \in ModelIds |-> 0]
    /\ removes = [id \in ModelIds |-> 0]
    /\ nextUid = 1
    /\ clients = [p \in Clients |->
                     [pc |-> "idle", req |-> NoRequest, resp |-> NoResponse]]
    /\ issued = 0
    /\ gone = {}
    /\ stream = NoStream
    /\ ext = NoExt
    /\ call = NoCall

Next ==
    \E p \in Clients :
        \/ Send(p)
        \/ add_model(p)
        \/ remove_model_endpoint(p)
        \/ list_models(p)
        \/ chat_rejected(p)
        \/ chat_completion(p)
        \/ Receive(p)

Spec == Init /\ [][Next]_vars

----------------------------------------------------------------------------
(* The event loop while a load runs (SpecLoop).  The handlers are          *)
(* coroutines of one asyncio event loop and load_model is a plain function *)
(* they call without awaiting: from the moment load_config /               *)
(* load_vlm_model / load_lm_model start until they return, the loop's      *)
(* thread is inside that call and resumes no other coroutine.  Here the    *)
(* start of the load is a step of its own: pc = "loading" is a handler     *)
(* whose load_model call is reading the model.                             *)

\* the handler of p, when it runs, reaches a load_model call that loads
WouldLoad(p) ==
    /\ clients[p].pc = "pending"
    /\ clients[p].req.op \in {"add", "chat"}
    /\ clients[p].req.op = "chat" => (Validates(clients[p].req) /\ mlx)
    /\ load_model(models, clients[p].req.id, nextUid).loaded

\* the loop's thread is not inside a load called by another handler
LoopFree(p) == \A q \in Clients \ {p} : clients[q].pc # "loading"

\* the handler of p starts and enters load_vlm_model / load_lm_model
load_begins(p) ==
    /\ LoopFree(p)
    /\ WouldLoad(p)
    /\ clients' = [clients EXCEPT ![p].pc = "loading"]
    /\ UNCHANGED <<mlx, models, loads, removes, nextUid, issued, gone, stream, ext, call>>

\* the handler of p runs to its response: from its start when it loads
\* nothing, from the return of the load otherwise
serve(p) ==
    /\ LoopFree(p)
    /\ ~WouldLoad(p)
    /\ \/ add_model(p)
       \/ remove_model_endpoint(p)
       \/ list_models(p)
       \/ chat_rejected(p)
       \/ chat_completion(p)

NextLoop ==
    \E p \in Clients :
        \/ Send(p)
        \/ load_begins(p)
        \/ serve(p)
        \/ Receive(p)

SpecLoop == Init /\ [][NextLoop]_vars

\* C18: while a load of one name is in flight, a pending listing and a
\* pending POST /v1/models for another name are not held back by it: the
\* handler can run (and start its own load) before the load returns.
C18_UnrelatedNotBlocked ==
    \A p, q \in Clients :
        (/\ clients[p].pc = "loading"
         /\ clients[q].pc = "pending"
         /\ \/ clients[q].req.op = "list"
            \/ /\ clients[q].req.op = "add"
               /\ clients[q].req.id # clients[p].req.id)
        => ENABLED (serve(q) \/ load_begins(q))

----------------------------------------------------------------------------
(* Properties of the registry and the router, checked under Spec *)

Done(p, op) == clients[p].pc = "done" /\ clients[p].req.op = op

\* the name remove_model_endpoint passes to ModelProvider.remove_model
RemoveTarget(p) == strip_quotes(unquote(clients[p].req.id))

GotHandle(p) ==
    /\ clients[p].pc = "done"
    /\ clients[p].req.op \in {"add", "chat"}
    /\ clients[p].resp.handle # NoHandle

\* C1: concurrent load_model calls for one name that is not cached run one
\* load, and every caller is handed the same handle object.  Counted per
\* residence of the name in the registry: between two removals of a name at
\* most one load of it runs, and callers served in the same residence hold
\* the same handle.
C1_OneLoadSameHandle ==
    /\ \A id \in ModelIds : loads[id] <= removes[id] + 1
    /\ \A id \in ModelIds :
          loads[id] = removes[id] + (IF id \in DOMAIN models THEN 1 ELSE 0)
    /\ \A p \in Clients :
          (GotHandle(p) /\ removes[clients[p].req.id] = clients[p].resp.epoch)
          => /\ loads[clients[p].req.id] = clients[p].resp.epoch + 1
             /\ models[clients[p].req.id] = clients[p].resp.handle
    /\ \A p, q \in Clients :
          (/\ GotHandle(p) /\ GotHandle(q)
           /\ clients[p].req.id = clients[q].req.id
           /\ clients[p].resp.epoch = clients[q].resp.epoch)
          => clients[p].resp.handle = clients[q].resp.handle

\* two calls for the same uncached name were in flight together, both
\* returned, and one load ran
C1_Witness ==
    \E p, q \in Clients :
        /\ p # q
        /\ GotHandle(p) /\ GotHandle(q)
        /\ q \in clients[p].resp.peers
        /\ clients[p].req.id = clients[q].req.id
        /\ clients[p].resp.handle = clients[q].resp.handle
        /\ loads[clients[p].req.id] = 1
        /\ removes[clients[p].req.id] = 0

\* C2: once remove_model(id) has returned True, no listing shows id until
\* load_model(id) is called again.
C2_RemovedNotListed ==
    /\ gone \cap get_available_models(models) = {}
    /\ \A p \in Clients :
          Done(p, "list") =>
              clients[p].resp.listed \cap clients[p].resp.goneAtList = {}

\* a listing served after a successful removal, while a load of another
\* name had put an entry in the registry
C2_Witness ==
    \E p \in Clients :
        /\ Done(p, "list")
        /\ clients[p].resp.goneAtList # {}
        /\ clients[p].resp.listed # {}

\* C3: remove_model of a name that is not in the registry returns False,
\* does not raise, and leaves the registry as it was.
C3_RemoveAbsent ==
    [][\A p \in Clients :
          (remove_model_endpoint(p) /\ RemoveTarget(p) \notin DOMAIN models)
          => /\ models' = models
             /\ clients'[p].resp.removed = FALSE
             /\ clients'[p].resp.raised = FALSE
             /\ clients'[p].resp.status = 404]_vars

\* a removal of an absent name answered while the registry holds another
C3_Witness ==
    \E p \in Clients :
        /\ Done(p, "remove")
        /\ clients[p].resp.removed = FALSE
        /\ clients[p].resp.status = 404
        /\ RemoveTarget(p) \notin DOMAIN models
        /\ DOMAIN models # {}

VlmNoImage(p) ==
    /\ Done(p, "chat")
    /\ clients[p].resp.handle # NoHandle
    /\ IsVlm(clients[p].resp.handle.model_type)
    /\ ImageUrl(clients[p].req) = None

C7_ImageFieldAccepted ==
    \A p \in Clients :
        (/\ Done(p, "chat")
         /\ Validates(clients[p].req)
         /\ clients[p].resp.handle # NoHandle
         /\ IsVlm(clients[p].resp.handle.model_type)
         /\ clients[p].req.image # None)
        => clients[p].resp.status = 200

----------------------------------------------------------------------------
(* The stream encoders: lm_stream_generator and vlm_stream_generator.      *)
(* Both are generator functions: nothing runs until the consumer asks for  *)
(* the next event, and each request runs the body up to its next yield.    *)

\* fragments in one Generator run
MaxFrags == 3

\* Fragments the Generator yields: ordinary text, the end-of-message token
\* itself, and a piece of text that occurs inside the end-of-message token
Fragments == {"a", "eom", "eo"}

\* Python's "x in s" for a string s: x is a substring of s
Substrings(word) == IF word = "eom" THEN {"eom", "eo"} ELSE {word}

\* stop_words as get_eom_token returns it: None when the model's tool
\* configuration names no eom_token, else the configured value, a string or
\* a list of strings
StopWords ==
    {[kind |-> "none", words |-> <<>>],
     [kind |-> "str", words |-> <<"eom">>],
     [kind |-> "list", words |-> <<"eom">>],
     [kind |-> "list", words |-> <<>>]}

\* a loop that never stops at a stop word
StopHitNever(token, stop_words) == FALSE

\* "if stop_words and token in stop_words"
StopHit(token, stop_words) ==
    CASE stop_words.kind = "str" -> token \in Substrings(stop_words.words[1])
      [] stop_words.kind = "list" ->
            \E i \in 1..Len(stop_words.words) : stop_words.words[i] = token
      [] OTHER -> FALSE

ChunkNoContent(token, model_name) ==
    [type |-> "chunk", model |-> model_name, nchoices |-> 1, index |-> 0,
     role |-> "assistant", content |-> "", finish_reason |-> None]

\* ChatCompletionChunk(...) with one choice, sent as "data: <json>\n\n"
Chunk(token, model_name) ==
    [type |-> "chunk", model |-> model_name, nchoices |-> 1, index |-> 0,
     role |-> "assistant", content |-> token, finish_reason |-> None]

\* "data: [DONE]\n\n"
DONE ==
    [type |-> "done", model |-> None, nchoices |-> 0, index |-> 0,
     role |-> None, content |-> None, finish_reason |-> None]

FinishSilently(out) == out

\* the last statement of both generators: yield "data: [DONE]\n\n"
Finish(out) == Append(out, DONE)

FragmentLists == UNION {[1..n -> Fragments] : n \in 0..MaxFrags}

\* a generator object as the call returns it: no line of the body has run
NewStream(kind, handle, model_name, frags, stop_words) ==
    [pc |-> "created", kind |-> kind, handle |-> handle, model |-> model_name,
     source |-> frags, stop_words |-> stop_words, pulled |-> 0, out |-> <<>>]

\* a body that marks the chunk of the Generator's last fragment as final
ResumeMarkingLast(s, stops) ==
    IF s.pc = "sentinel" THEN [s EXCEPT !.pc = "ended"]
    ELSE IF s.pulled = Len(s.source)
         THEN [s EXCEPT !.pc = "sentinel", !.out = Finish(s.out)]
         ELSE LET token == s.source[s.pulled + 1]
                  chunk == [Chunk(token, s.model) EXCEPT
                               !.finish_reason =
                                   IF s.pulled + 1 = Len(s.source)
                                   THEN "stop" ELSE None]
              IN IF stops /\ StopHit(token, s.stop_words)
                 THEN [s EXCEPT !.pc = "sentinel", !.pulled = @ + 1,
                                !.out = Finish(s.out)]
                 ELSE [s EXCEPT !.pc = "chunk", !.pulled = @ + 1,
                                !.out = Append(s.out, chunk)]

\* One resumption of the generator body by next(): from the call or from
\* the yield of a chunk, ask the Generator for its next fragment; exhausted
\* or (text-only) a stop word ends the loop and yields the sentinel,
\* anything else yields one chunk.  From the yield of the sentinel the body
\* returns.
Resume(s, stops) ==
    IF s.pc = "sentinel" THEN [s EXCEPT !.pc = "ended"]
    ELSE IF s.pulled = Len(s.source)
         THEN [s EXCEPT !.pc = "sentinel", !.out = Finish(s.out)]
         ELSE LET token == s.source[s.pulled + 1]
              IN IF stops /\ StopHit(token, s.stop_words)
                 THEN [s EXCEPT !.pc = "sentinel", !.pulled = @ + 1,
                                !.out = Finish(s.out)]
                 ELSE [s EXCEPT !.pc = "chunk", !.pulled = @ + 1,
                                !.out = Append(s.out, Chunk(token, s.model))]

\* a generator that can still be resumed after it was closed
ResumableClosed(s) == s.pc \in {"created", "chunk", "sentinel", "closed"}

\* next() runs the body of a generator that is neither finished nor closed
Resumable(s) == s.pc \in {"created", "chunk", "sentinel"}

\* an object that is freed when the registry drops it
InRegistry(h, ms, s) == \E id \in DOMAIN ms : ms[id] = h

\* a Python object lives as long as something refers to it: an entry of
\* ModelProvider.models, or the frame of a generator that is not finished,
\* which holds its argument "model"
Referenced(h, ms, s) ==
    \/ \E id \in DOMAIN ms : ms[id] = h
    \/ Resumable(s) /\ s.handle = h

RouterIdle ==
    /\ mlx = TRUE
    /\ models = <<>>
    /\ loads = [id \in ModelIds |-> 0]
    /\ removes = [id \in ModelIds |-> 0]
    /\ nextUid = 1
    /\ clients = [p \in Clients |->
                     [pc |-> "idle", req |-> NoRequest, resp |-> NoResponse]]
    /\ issued = 0
    /\ gone = {}

routerVars == <<mlx, models, loads, removes, nextUid, clients, issued, gone>>

\* the router after chat_completion has taken the handle of m from
\* load_model and built the generator object
RouterHolds(m) ==
    /\ mlx = TRUE
    /\ models = Store(<<>>, m, NewHandle(m, 1))
    /\ loads = [id \in ModelIds |-> IF id = m THEN 1 ELSE 0]
    /\ removes = [id \in ModelIds |-> 0]
    /\ nextUid = 2
    /\ clients = [p \in Clients |->
                     [pc |-> "idle", req |-> NoRequest, resp |-> NoResponse]]
    /\ issued = 0
    /\ gone = {}

InitStream ==
    /\ ext = NoExt
    /\ call = NoCall
    /\ \/ \E m \in {"phi"}, f \in FragmentLists, w \in StopWords :
             /\ RouterHolds(m)
             /\ stream = NewStream("lm", NewHandle(m, 1), m, f, w)
       \/ \E m \in {"bunny"}, f \in FragmentLists :
             /\ RouterHolds(m)
             /\ stream = NewStream("vlm", NewHandle(m, 1), m, f,
                                   [kind |-> "none", words |-> <<>>])

\* the consumer takes the next event of a text-only stream
lm_stream_generator ==
    /\ stream.kind = "lm"
    /\ Resumable(stream)
    /\ Referenced(stream.handle, models, stream)
    /\ stream' = Resume(stream, TRUE)
    /\ UNCHANGED <<routerVars, ext, call>>

\* the consumer takes the next event of a multimodal stream
vlm_stream_generator ==
    /\ stream.kind = "vlm"
    /\ Resumable(stream)
    /\ Referenced(stream.handle, models, stream)
    /\ stream' = Resume(stream, FALSE)
    /\ UNCHANGED <<routerVars, ext, call>>

\* the consumer goes away: the generator object is closed where it stands
Disconnect ==
    /\ Resumable(stream)
    /\ stream' = [stream EXCEPT !.pc = "closed"]
    /\ UNCHANGED <<routerVars, ext, call>>

Consume ==
    \/ lm_stream_generator
    \/ vlm_stream_generator
    \/ Disconnect

\* ModelProvider.remove_model(id) runs to its return for a cached name
\* while the generator is suspended between two events
remove_in_flight ==
    /\ Resumable(stream)
    /\ \E id \in DOMAIN models :
          LET r == remove_model(models, id)
          IN /\ r.removed
             /\ models' = r.models
             /\ removes' = [removes EXCEPT ![id] = @ + 1]
             /\ gone' = gone \cup {id}
    /\ UNCHANGED <<mlx, loads, nextUid, clients, issued, stream, ext, call>>

NextStream == Consume \/ remove_in_flight

SpecStream == InitStream /\ [][NextStream]_vars

\* the server keeps iterating a response body until it ends or the client
\* is gone
SpecStreamFair == SpecStream /\ WF_vars(Consume)

----------------------------------------------------------------------------
(* Properties of the stream encoders, checked under SpecStream(Fair) *)

ChunksOf(frags, model_name) ==
    [i \in 1..Len(frags) |-> Chunk(frags[i], model_name)]

Relayed(s) ==
    LET hits == {i \in 1..Len(s.source) :
                    s.kind = "lm" /\ StopHit(s.source[i], s.stop_words)}
        cut == IF hits = {} THEN Len(s.source)
               ELSE (CHOOSE i \in hits : \A j \in hits : i <= j) - 1
    IN SubSeq(s.source, 1, cut)

SentinelLastOnly ==
    LET o == stream.out
    IN /\ \A i \in 1..Len(o) : o[i] = DONE => i = Len(o)
       /\ stream.pc \in {"sentinel", "ended"}
              => Len(o) >= 1 /\ o[Len(o)] = DONE
       /\ stream.pc \in {"created", "chunk"}
              => \A i \in 1..Len(o) : o[i] # DONE

Terminated == stream.pc \in {"ended", "closed"}

\* C5: a stream over a finite fragment source terminates; when the
\* generator ends it (source exhausted or stop word met) [DONE] has been
\* emitted exactly once and no event follows it.
C5_TerminatesWithOneSentinel ==
    /\ []SentinelLastOnly
    /\ <>Terminated

\* a text-only stream ended by a stop word before its source was exhausted
C5_Witness ==
    /\ stream.pc = "ended"
    /\ stream.kind = "lm"
    /\ stream.pulled < Len(stream.source)
    /\ Len(stream.out) >= 2
    /\ stream.out[Len(stream.out)] = DONE

----------------------------------------------------------------------------
(* The tool-call extractor: handle_function_calls(output, request).        *)
(* A raw output is a sequence of tokens, each standing for a fixed piece   *)
(* of text; the regular expressions and JSON parses of the code are        *)
(* computed on the characters the tokens stand for.                        *)
(*   t   Hi                          w   a newline                         *)
(*   JO  {"tool_calls":[             JC  ]}                                *)
(*   c   {"name":"get_weather","arguments":{"city":"Paris"}}               *)
(*   n   {"name":"get_weather"}      g   {x}                               *)
(*   ,   ,                           ]   ]                                 *)
(*   F   <function=lookup>           U   functools[                        *)
(*   O   <function_calls>            C   </function_calls>                 *)
(*   V   <invoke><tool_name>search</tool_name><q>x</q></invoke>            *)
(*   }   } (left over in a cleaned text only)                              *)

\* tokens in one raw output
MaxTextLen == 5

Tokens == {"t", "w", "JO", "JC", "c", "n", "g", ",", "]", "F", "U", "O", "C", "V"}

\* the tokens that hold "{" (each begins with it), "}" (each ends with it),
\* "]", and "<" or ">"
OPENS == {"JO", "c", "n", "g"}
CLOSES == {"JC", "c", "n", "g"}
RBRACK == {"JC", "]"}
ANGLE == {"F", "O", "C", "V"}

Texts == UNION {[1..n -> Tokens] : n \in 0..MaxTextLen}

Max(S) == CHOOSE x \in S : \A y \in S : y <= x
Min(S) == CHOOSE x \in S : \A y \in S : x <= y

\* str.strip(): leading and trailing whitespace removed
RECURSIVE LStrip(_)
LStrip(s) == IF s # <<>> /\ Head(s) = "w" THEN LStrip(Tail(s)) ELSE s

RECURSIVE RStrip(_)
RStrip(s) ==
    IF s # <<>> /\ s[Len(s)] = "w" THEN RStrip(SubSeq(s, 1, Len(s) - 1)) ELSE s

Strip(s) == RStrip(LStrip(s))

\* JSON whitespace between values is skipped
RECURSIVE SkipW(_, _)
SkipW(s, i) == IF i <= Len(s) /\ s[i] = "w" THEN SkipW(s, i + 1) ELSE i

Fail == [ok |-> FALSE, next |-> 0, elems |-> <<>>]

\* json.loads on token texts.  A value is an entry object (c, n) or an
\* object {"tool_calls":[ v, ... ]}; for the latter elems lists the first
\* token of each element of its array.
RECURSIVE ParseValue(_, _)
RECURSIVE ParseArray(_, _)
RECURSIVE ParseRest(_, _)
ParseValue(s, i) ==
    LET j == SkipW(s, i)
    IN IF j > Len(s) THEN Fail
       ELSE IF s[j] \in {"c", "n"}
            THEN [ok |-> TRUE, next |-> j + 1, elems |-> <<>>]
            ELSE IF s[j] = "JO" THEN ParseArray(s, j + 1) ELSE Fail

ParseArray(s, i) ==
    LET j == SkipW(s, i)
    IN IF j > Len(s) THEN Fail
       ELSE IF s[j] = "JC"
            THEN [ok |-> TRUE, next |-> j + 1, elems |-> <<>>]
            ELSE ParseRest(s, j)

ParseRest(s, j) ==
    LET v == ParseValue(s, j)
    IN IF ~v.ok THEN Fail
       ELSE LET m == SkipW(s, v.next)
                kind == s[SkipW(s, j)]
            IN IF m > Len(s) THEN Fail
               ELSE IF s[m] = "JC"
                    THEN [ok |-> TRUE, next |-> m + 1, elems |-> <<kind>>]
                    ELSE IF s[m] = ","
                         THEN LET r == ParseRest(s, m + 1)
                              IN IF r.ok
                                 THEN [ok |-> TRUE, next |-> r.next,
                                       elems |-> <<kind>> \o r.elems]
                                 ELSE Fail
                         ELSE Fail

\* json.loads(text): the whole text is one JSON value
json_loads(s) ==
    LET v == ParseValue(s, 1)
    IN IF v.ok /\ SkipW(s, v.next) = Len(s) + 1
       THEN [ok |-> TRUE, elems |-> v.elems]
       ELSE [ok |-> FALSE, elems |-> <<>>]

\* json.loads(f"[{inner}]") for an inner text that holds no "]": the
\* elements up to the bracket the f-string adds
json_loads_list(inner) ==
    LET v == ParseArray(Append(inner, "JC"), 1)
    IN IF v.ok /\ v.next = Len(inner) + 2
       THEN [ok |-> TRUE, elems |-> v.elems]
       ELSE [ok |-> FALSE, elems |-> <<>>]

\* json.dumps of a parsed value, piece by piece
DumpsToken(tok) ==
    CASE tok = "c" ->
            "{\"name\": \"get_weather\", \"arguments\": {\"city\": \"Paris\"}}"
      [] tok = "n" -> "{\"name\": \"get_weather\"}"
      [] tok = "JO" -> "{\"tool_calls\": ["
      [] tok = "JC" -> "]}"
      [] tok = "," -> ", "
      [] OTHER -> tok

IsNotWhitespace(tok) == tok # "w"

json_dumps(s) ==
    LET v == SelectSeq(s, IsNotWhitespace)
    IN [i \in 1..Len(v) |-> DumpsToken(v[i])]

\* ToolCall(id=..., function=FunctionCall(name=..., arguments=...))
ToolCall(name, arguments) ==
    [type |-> "function", name |-> name, arguments |-> arguments]

\* ToolCall for an array entry: call["name"], json.dumps(call["arguments"])
EntryCall == ToolCall("get_weather", <<"{\"city\": \"Paris\"}">>)

\* the loop over the entries of a parsed array: an entry without "name" or
\* "arguments" (n, or a nested object) raises KeyError at call[...]; the
\* calls appended before it stay in tool_calls
RECURSIVE EntryCalls(_)
EntryCalls(elems) ==
    IF elems = <<>> \/ Head(elems) # "c" THEN <<>>
    ELSE <<EntryCall>> \o EntryCalls(Tail(elems))

EntriesRaise(elems) == \E i \in 1..Len(elems) : elems[i] # "c"

\* re.search(r'\{.*"tool_calls":\s*\[.*\].*\}', output, re.DOTALL): with
\* greedy ".*" the match runs from the first "{" of the text to its last
\* "}", and exists when a "tool_calls":[ at or after that "{" is followed by
\* a "]" that is followed by a "}".
JsonMatch(s) ==
    LET opens == {i \in 1..Len(s) : s[i] \in OPENS}
        closes == {i \in 1..Len(s) : s[i] \in CLOSES}
    IN IF /\ opens # {}
          /\ \E j \in Min(opens)..Len(s) :
                /\ s[j] = "JO"
                /\ \E k \in (j + 1)..Len(s) :
                      /\ s[k] \in RBRACK
                      /\ \/ s[k] = "JC"
                         \/ \E l \in (k + 1)..Len(s) : s[l] \in CLOSES
       THEN [found |-> TRUE, from |-> Min(opens), to |-> Max(closes)]
       ELSE [found |-> FALSE, from |-> 0, to |-> 0]

\* the text with positions from..to cut out
Cut(s, from, to) == SubSeq(s, 1, from - 1) \o SubSeq(s, to + 1, Len(s))

Extracted(convention, failed, content, tool_calls) ==
    [raised |-> FALSE, convention |-> convention, failed |-> failed,
     content |-> content, tool_calls |-> tool_calls]

Raised(convention, tool_calls) ==
    [raised |-> TRUE, convention |-> convention, failed |-> TRUE,
     content |-> <<>>, tool_calls |-> tool_calls]

\* a branch that cuts the matched text out even when it does not decode
JsonConventionCut(s) ==
    LET m == JsonMatch(s)
        data == json_loads(SubSeq(s, m.from, m.to))
    IN IF ~data.ok THEN Extracted("json", TRUE, Strip(Cut(s, m.from, m.to)), <<>>)
       ELSE IF EntriesRaise(data.elems)
            THEN Raised("json", EntryCalls(data.elems))
            ELSE Extracted("json", FALSE, Strip(Cut(s, m.from, m.to)),
                           EntryCalls(data.elems))

\* the "if json_match:" branch; only json.JSONDecodeError is caught there
JsonConvention(s) ==
    LET m == JsonMatch(s)
        data == json_loads(SubSeq(s, m.from, m.to))
    IN IF ~data.ok THEN Extracted("json", TRUE, s, <<>>)
       ELSE IF EntriesRaise(data.elems)
            THEN Raised("json", EntryCalls(data.elems))
            ELSE Extracted("json", FALSE, Strip(Cut(s, m.from, m.to)),
                           EntryCalls(data.elems))

\* re.findall(r"<function=(\w+)>\s*({[^<>]+})", output) from position i on:
\* the argument texts, each running from a "{" after the tag to the last
\* "}" before the next "<" or ">"
RECURSIVE RunEnd(_, _)
RunEnd(s, j) ==
    IF j < Len(s) /\ s[j + 1] \notin ANGLE THEN RunEnd(s, j + 1) ELSE j

RECURSIVE FunctionMatches(_, _)
FunctionMatches(s, i) ==
    IF i > Len(s) THEN <<>>
    ELSE LET j == SkipW(s, i + 1)
         IN IF s[i] = "F" /\ j <= Len(s) /\ s[j] \in OPENS
            THEN LET closes == {x \in j..RunEnd(s, j) : s[x] \in CLOSES}
                 IN IF closes # {}
                    THEN <<SubSeq(s, j, Max(closes))>>
                         \o FunctionMatches(s, Max(closes) + 1)
                    ELSE FunctionMatches(s, i + 1)
            ELSE FunctionMatches(s, i + 1)

\* the loop over function_calls: json.loads(args_str) raising ends the loop
\* and the whole try block; the calls appended before stay in tool_calls
RECURSIVE FunctionCalls(_)
FunctionCalls(matches) ==
    IF matches = <<>> \/ ~json_loads(Head(matches)).ok THEN <<>>
    ELSE <<ToolCall("lookup", json_dumps(Head(matches)))>>
         \o FunctionCalls(Tail(matches))

FunctionsRaise(matches) ==
    \E i \in 1..Len(matches) : ~json_loads(matches[i]).ok

\* the loop over the <invoke>...</invoke> blocks
RECURSIVE InvokeCalls(_)
InvokeCalls(s) ==
    IF s = <<>> THEN <<>>
    ELSE (IF Head(s) = "V"
          THEN <<ToolCall("search", <<"{\"q\": \"x\"}">>)>> ELSE <<>>)
         \o InvokeCalls(Tail(s))

\* re.sub(r"<function_calls>.*</function_calls>", "", output): greedy, from
\* the first opening tag to the last closing tag after it
CutFunctionCalls(s) ==
    LET o == Min({i \in 1..Len(s) : s[i] = "O"})
        cs == {i \in (o + 1)..Len(s) : s[i] = "C"}
    IN IF cs = {} THEN s ELSE Cut(s, o, Max(cs))

\* the 'elif "<function_calls>" in output.lower():' branch
TagConvention(s) ==
    LET matches == FunctionMatches(s, 1)
    IN IF FunctionsRaise(matches)
       THEN Extracted("tags", TRUE, s, FunctionCalls(matches))
       ELSE Extracted("tags", FALSE, Strip(CutFunctionCalls(s)),
                      FunctionCalls(matches) \o InvokeCalls(s))

\* re.sub(r"functools\[.*?\]", "", output): every span from a functools[ to
\* the first "]" after it; a "]}" cut at its "]" leaves the "}"
RECURSIVE CutFunctools(_)
CutFunctools(s) ==
    IF s = <<>> THEN <<>>
    ELSE LET rb == {i \in 2..Len(s) : s[i] \in RBRACK}
         IN IF Head(s) = "U" /\ rb # {}
            THEN (IF s[Min(rb)] = "JC" THEN <<"}">> ELSE <<>>)
                 \o CutFunctools(SubSeq(s, Min(rb) + 1, Len(s)))
            ELSE <<Head(s)>> \o CutFunctools(Tail(s))

\* the 'elif "functools[" in output:' branch; re.search takes the first
\* functools[ and the first "]" after it
FunctoolsConvention(s) ==
    LET u == Min({i \in 1..Len(s) : s[i] = "U"})
        rb == {i \in (u + 1)..Len(s) : s[i] \in RBRACK}
        data == json_loads_list(SubSeq(s, u + 1, Min(rb) - 1))
    IN IF rb = {} THEN Extracted("functools", FALSE, s, <<>>)
       ELSE IF ~data.ok THEN Extracted("functools", TRUE, s, <<>>)
       ELSE IF EntriesRaise(data.elems)
            THEN Extracted("functools", TRUE, s, EntryCalls(data.elems))
            ELSE Extracted("functools", FALSE, Strip(CutFunctools(s)),
                           EntryCalls(data.elems))

\* the chain tried in the reverse order
ExtractReversed(s) ==
    IF \E i \in 1..Len(s) : s[i] = "U" THEN FunctoolsConvention(s)
    ELSE IF \E i \in 1..Len(s) : s[i] = "O" THEN TagConvention(s)
    ELSE IF JsonMatch(s).found THEN JsonConvention(s)
    ELSE Extracted("none", FALSE, s, <<>>)

\* the if / elif chain that picks the convention
Extract(s) ==
    IF JsonMatch(s).found THEN JsonConvention(s)
    ELSE IF \E i \in 1..Len(s) : s[i] = "O" THEN TagConvention(s)
    ELSE IF \E i \in 1..Len(s) : s[i] = "U" THEN FunctoolsConvention(s)
    ELSE Extracted("none", FALSE, s, <<>>)

FinishReasonStop(tool_calls) == "stop"

\* "stop" if not tool_calls else "tool_call"
FinishReason(tool_calls) == IF tool_calls = <<>> THEN "stop" ELSE "tool_call"

\* a response whose content is stripped whatever the branch taken
ResponseStripped(content, tool_calls) ==
    [index |-> 0, role |-> "assistant", content |-> Strip(content),
     finish_reason |-> FinishReason(tool_calls), tool_calls |-> tool_calls]

\* ChatCompletionResponse(...): one choice, the assistant message, the calls
Response(content, tool_calls) ==
    [index |-> 0, role |-> "assistant", content |-> content,
     finish_reason |-> FinishReason(tool_calls), tool_calls |-> tool_calls]

NoResult == Response(<<>>, <<>>)

InitExtract ==
    /\ RouterIdle
    /\ stream = NoStream
    /\ call = NoCall
    /\ \E text \in Texts :
          ext = [pc |-> "called", output |-> text,
                 x |-> Extracted("none", FALSE, <<>>, <<>>),
                 response |-> NoResult]

\* one call of handle_function_calls: it returns a response or raises
handle_function_calls ==
    /\ ext.pc = "called"
    /\ LET x == Extract(ext.output)
       IN ext' = [ext EXCEPT
                     !.pc = IF x.raised THEN "raised" ELSE "returned",
                     !.x = x,
                     !.response = IF x.raised THEN NoResult
                                  ELSE Response(x.content, x.tool_calls)]
    /\ UNCHANGED <<routerVars, stream, call>>

NextExtract == handle_function_calls

SpecExtract == InitExtract /\ [][NextExtract]_vars

----------------------------------------------------------------------------
(* Properties of the extractor, checked under SpecExtract *)

\* C8: handle_function_calls never raises, whatever the raw output.
C8_NeverRaises == ext.pc # "raised"

\* C9: when parsing fails inside the attempted convention, the response
\* carries the raw text unchanged and no call at all.
C9_AllOrNothing ==
    (ext.pc = "returned" /\ ext.x.failed)
    => /\ ext.response.content = ext.output
       /\ ext.response.tool_calls = <<>>

\* C10: the response's finish_reason is "tool_call" exactly when its call
\* list is non-empty, and "stop" otherwise.
C10_FinishReason ==
    ext.pc = "returned"
    => /\ ext.response.finish_reason = "tool_call"
              <=> ext.response.tool_calls # <<>>
       /\ ext.response.finish_reason = "stop"
              <=> ext.response.tool_calls = <<>>

\* a response carrying two calls
C10_Witness ==
    /\ ext.pc = "returned"
    /\ Len(ext.response.tool_calls) >= 2
    /\ ext.response.finish_reason = "tool_call"

Has(s, tok) == \E i \in 1..Len(s) : s[i] = tok

\* C11: one convention is attempted per text, the first in the order
\* embedded JSON, tags, functools whose trigger the text meets; the calls of
\* the outcome are that convention's calls and no later one contributes.
C11_OneConventionByPriority ==
    ext.pc # "called"
    => LET s == ext.output
           first == IF JsonMatch(s).found THEN "json"
                    ELSE IF Has(s, "O") THEN "tags"
                    ELSE IF Has(s, "U") THEN "functools"
                    ELSE "none"
           calls == CASE first = "json" -> JsonConvention(s).tool_calls
                      [] first = "tags" -> TagConvention(s).tool_calls
                      [] first = "functools" -> FunctoolsConvention(s).tool_calls
                      [] OTHER -> <<>>
       IN /\ ext.x.convention = first
          /\ ext.x.tool_calls = calls
          /\ first = "json"
                => \A i \in 1..Len(calls) : calls[i].name = "get_weather"
          /\ first = "tags"
                => \A i \in 1..Len(calls) : calls[i].name \in {"lookup", "search"}

\* a text that meets the JSON and the tag triggers, holding an <invoke>
\* block the tag convention would turn into a call: only the JSON entry is
\* returned
C11_Witness ==
    /\ ext.pc = "returned"
    /\ JsonMatch(ext.output).found
    /\ Has(ext.output, "O")
    /\ Has(ext.output, "V")
    /\ ext.response.tool_calls = <<EntryCall>>

\* the text meets the trigger of no convention
NoTrigger(s) == ~JsonMatch(s).found /\ ~Has(s, "O") /\ ~Has(s, "U")

\* C12: a raw text that matches no convention comes back unchanged, with an
\* empty call list and finish_reason "stop".
C12_NoMatchUnchanged ==
    (ext.pc # "called" /\ NoTrigger(ext.output))
    => /\ ext.pc = "returned"
       /\ ext.response.content = ext.output
       /\ ext.response.tool_calls = <<>>
       /\ ext.response.finish_reason = "stop"

\* a plain text with a leading newline went through the extractor
C12_Witness ==
    /\ ext.pc = "returned"
    /\ NoTrigger(ext.output)
    /\ Len(ext.output) >= 2
    /\ Head(ext.output) = "w"
    /\ Has(ext.output, "t")
    /\ ext.response.content = ext.output

\* positions i..j of s hold a well-formed {"tool_calls":[ ... ]} object
\* whose entries all carry a name and arguments
ToolCallsObject(s, i, j) ==
    /\ s[i] = "JO"
    /\ json_loads(SubSeq(s, i, j)).ok
    /\ \A k \in 1..Len(json_loads(SubSeq(s, i, j)).elems) :
          json_loads(SubSeq(s, i, j)).elems[k] = "c"

\* C13: a raw text holding a well-formed tool_calls object of n entries
\* yields n calls in array order, each of type "function" with the entry's
\* name and re-encoded arguments, and the text with the object cut out
\* (compared up to surrounding whitespace).
C13_JsonCallsExtracted ==
    ext.pc # "called"
    => \A i \in 1..Len(ext.output) : \A j \in i..Len(ext.output) :
          ToolCallsObject(ext.output, i, j)
          => LET n == Len(json_loads(SubSeq(ext.output, i, j)).elems)
             IN /\ ext.pc = "returned"
                /\ ext.response.tool_calls = [k \in 1..n |-> EntryCall]
                /\ Strip(ext.response.content)
                      = Strip(Cut(ext.output, i, j))

\* the positions of the <function=lookup> markers of s that are followed by
\* a JSON object, and the object of the marker at position i
MarkerAt(s, i) ==
    /\ s[i] = "F"
    /\ SkipW(s, i + 1) <= Len(s)
    /\ s[SkipW(s, i + 1)] \in {"c", "n"}

RECURSIVE MarkerArgs(_, _)
MarkerArgs(s, i) ==
    IF i > Len(s) THEN <<>>
    ELSE (IF MarkerAt(s, i) THEN <<s[SkipW(s, i + 1)]>> ELSE <<>>)
         \o MarkerArgs(s, i + 1)

\* a text of words, newlines, the <function_calls> tags and markers, each
\* <function=lookup> followed by one JSON object and each object by no other
TagText(s) ==
    /\ \A i \in 1..Len(s) : s[i] \in {"t", "w", "O", "C", "F", "c", "n"}
    /\ Has(s, "F")
    /\ \A i \in 1..Len(s) : s[i] = "F" => MarkerAt(s, i)
    /\ \A i \in 1..Len(s) :
          s[i] \in {"c", "n"}
          => /\ i > 1
             /\ \E j \in 1..(i - 1) : s[j] = "F" /\ SkipW(s, j + 1) = i
             /\ i < Len(s) => s[i + 1] \notin {"c", "n"}

\* C14: a text of <function=NAME>{ARGS} markers with no tool_calls object
\* yields one call per marker, in order, named NAME with ARGS re-encoded,
\* and no marker is left in the cleaned text.
C14_TagCallsExtracted ==
    (ext.pc # "called" /\ TagText(ext.output))
    => LET args == MarkerArgs(ext.output, 1)
       IN /\ ext.pc = "returned"
          /\ ext.response.tool_calls
                = [k \in 1..Len(args)
                     |-> ToolCall("lookup", json_dumps(<<args[k]>>))]
          /\ \A i \in 1..Len(ext.response.content) :
                ext.response.content[i] \notin {"F", "c", "n"}

----------------------------------------------------------------------------
(* Further properties of the registry and the router, checked under Spec *)

\* C15: DELETE /v1/models for a model id answers 204 exactly when that id
\* was in the registry when the removal ran, and otherwise 404 with a detail
\* naming the id.
C15_RemoveStatus ==
    [][\A p \in Clients :
          (remove_model_endpoint(p) /\ clients[p].req.id \in ModelIds)
          => LET id == clients[p].req.id
                 resp == clients'[p].resp
             IN /\ resp.status = 204 <=> id \in DOMAIN models
                /\ resp.status = 404 <=> id \notin DOMAIN models
                /\ resp.status = 404 => resp.detail = id]_vars

\* C16: GET /v1/models lists exactly the ids loaded (by POST /v1/models or
\* by a chat completion) and not removed since, each once.
C16_ListExact ==
    [][\A p \in Clients :
          list_models(p)
          => LET data == clients'[p].resp.data
             IN /\ clients'[p].resp.status = 200
                /\ {data[i].id : i \in 1..Len(data)}
                      = {id \in ModelIds : loads[id] > removes[id]}
                /\ \A i, j \in 1..Len(data) :
                      data[i].id = data[j].id => i = j
                /\ \A i \in 1..Len(data) : data[i].object = "model"]_vars

\* a listing served after a removal shows the one id a chat completion
\* loaded
C16_Witness ==
    \E p, q \in Clients :
        /\ Done(p, "list")
        /\ Done(q, "chat")
        /\ clients[q].resp.handle # NoHandle
        /\ clients[p].resp.goneAtList # {}
        /\ Len(clients[p].resp.data) = 1
        /\ clients[p].resp.data[1].id = clients[q].req.id

\* C17: load_model of a cached name runs no load, returns the cached handle
\* and leaves the registry unchanged, from POST /v1/models and from a chat
\* completion alike; the handle under a name changes or disappears only in
\* a removal of that name.
C17_IdempotentStable ==
    [][/\ \A p \in Clients :
             ((add_model(p) \/ chat_completion(p))
              /\ clients[p].req.id \in DOMAIN models)
             => /\ models' = models
                /\ loads' = loads
                /\ nextUid' = nextUid
                /\ clients'[p].resp.handle = models[clients[p].req.id]
       /\ \A id \in DOMAIN models :
             (id \notin DOMAIN models' \/ models'[id] # models[id])
             => \E p \in Clients :
                   remove_model_endpoint(p) /\ RemoveTarget(p) = id]_vars

\* POST /v1/models and, not overlapping it, a chat completion for the same
\* name were handed the same handle
C17_Witness ==
    \E p, q \in Clients :
        /\ GotHandle(p) /\ clients[p].req.op = "add"
        /\ GotHandle(q) /\ clients[q].req.op = "chat"
        /\ clients[p].req.id = clients[q].req.id
        /\ q \notin clients[p].resp.peers
        /\ p \notin clients[q].resp.peers
        /\ clients[p].resp.handle = clients[q].resp.handle
        /\ models[clients[p].req.id] = clients[p].resp.handle

----------------------------------------------------------------------------
(* Removal during a stream, checked under SpecStreamFair *)

\* the name the stream's handle was stored under is no longer registered
HandleRemoved == stream.model \notin DOMAIN models

----------------------------------------------------------------------------
(* Laziness of the stream encoders, checked under SpecStream *)

IsChunk(e) == e.type = "chunk"

----------------------------------------------------------------------------
(* One chat-completion request, from its JSON body to its response         *)
(* (SpecChat): the validation of the body against ChatCompletionRequest,   *)
(* then chat_completion.                                                   *)

\* messages in one request body
MaxChatMsgs == 2

ChatModels == {"bunny", "phi", "firefunction-v2"}

\* '"firefunction-v2" not in request.model'
ToolPromptAllowed(model) == model # "firefunction-v2"

Roles == {"system", "user", "assistant"}

\* a string content with its text, a sequence of pieces
StrText(text) == [kind |-> "str", parts |-> <<>>, text |-> text]

ChatContents ==
    {StrText(<<"q1">>), StrText(<<"q2">>),
     [kind |-> "list", parts |-> <<TextPart, ImagePart("img1")>>, text |-> <<>>],
     [kind |-> "list", text |-> <<>>,
      parts |-> <<ImagePart("img1"), TextPart, ImagePart("img2")>>]}

ChatMessages == [role : Roles, content : ChatContents]

\* "tools": absent, an empty list, or one Function declaration
ToolLists == {None, "[]", "[get_weather]"}

ChatBodies ==
    [model : ChatModels, stream : BOOLEAN, image : Images, tools : ToolLists,
     messages : UNION {[1..n -> ChatMessages] : n \in 0..MaxChatMsgs}]

\* text_content += content_part.text + " " over the text parts, stripped
RECURSIVE TextOf(_)
TextOf(parts) ==
    IF parts = <<>> THEN <<>>
    ELSE (IF Head(parts).type = "text" THEN <<Head(parts).val>> ELSE <<>>)
         \o TextOf(Tail(parts))

\* chat_messages of the multimodal branch: one role/content entry per message
Flatten(msgs) ==
    [i \in 1..Len(msgs) |->
        [role |-> msgs[i].role,
         content |-> IF msgs[i].content.kind = "str" THEN msgs[i].content
                     ELSE StrText(TextOf(msgs[i].content.parts))]]

\* get_tool_prompt(model_name, tools, prompt): the rendered template, which
\* embeds the prompt as its query when the model family's configuration
\* sets "query", and that flag
get_tool_prompt(query, tools, prompt) ==
    [prompt |-> StrText(<<"template", tools>>
                        \o (IF query THEN <<"query">> \o prompt.text ELSE <<>>)),
     user_role |-> query]

\* the "if request.tools and ..." block of the text branch: the message list
\* after it, or the IndexError of request.messages[-1] on an empty list
ToolEdit(model, tools, msgs, query) ==
    IF tools \in {None, "[]"} \/ ~ToolPromptAllowed(model)
    THEN [raised |-> FALSE, messages |-> msgs]
    ELSE IF msgs # <<>> /\ msgs[1].role = "system"
    THEN [raised |-> FALSE, messages |-> msgs]
    ELSE IF msgs = <<>>
    THEN [raised |-> TRUE, messages |-> msgs]
    ELSE LET tp == get_tool_prompt(query, tools, msgs[Len(msgs)].content)
         IN IF tp.user_role
            THEN [raised |-> FALSE,
                  messages |-> [msgs EXCEPT ![Len(msgs)].content = tp.prompt]]
            ELSE [raised |-> FALSE,
                  messages |-> <<[role |-> "system", content |-> tp.prompt]>>
                               \o msgs]

\* apply_lm_chat_template raises: with a chat template, on the firefunction
\* path when request.tools is None (it is iterated); without one, on
\* request.messages[-1] of an empty list
TemplateRaises(has_template, model, tools, msgs) ==
    IF has_template THEN ~ToolPromptAllowed(model) /\ tools = None
    ELSE msgs = <<>>

\* what one run of the handler leaves: the response status and detail, the
\* load_model result, the Generator invocations with the image handed over,
\* chat_messages, request.messages, and the body of a 200 response
Outcome(status, detail, load, gen, gen_image, chat_messages, messages) ==
    [status |-> status, detail |-> detail, load |-> load, gen |-> gen,
     gen_image |-> gen_image, chat_messages |-> chat_messages,
     messages |-> messages, content |-> <<>>, tool_calls |-> <<>>]

NoLoad(ms) ==
    [raised |-> FALSE, loaded |-> FALSE, models |-> ms, handle |-> NoHandle]

\* the multimodal branch
VlmBranch(req, r) ==
    LET chat_messages == Flatten(req.messages)
        image_url == ImageUrl(req)
    IN IF MissingImage(image_url, r.handle.model_type)
       THEN Outcome(400, "Image URL not provided for VLM model", r, 0, None,
                    chat_messages, req.messages)
       ELSE IF req.stream
       THEN Outcome(500, None, r, 0, None, chat_messages, req.messages)
       ELSE Outcome(500, None, r, 1, image_url, chat_messages, req.messages)

\* the text branch
LmBranch(req, env, r) ==
    LET e == ToolEdit(req.model, req.tools, req.messages, env.query)
    IN IF e.raised
          \/ TemplateRaises(env.has_template, req.model, req.tools, e.messages)
       THEN Outcome(500, None, r, 0, None, <<>>, e.messages)
       ELSE IF req.stream
       THEN Outcome(500, None, r, 0, None, e.messages, e.messages)
       ELSE Outcome(500, None, r, 1, None, e.messages, e.messages)

\* chat_completion(request).  No path returns a response: a streaming call
\* evaluates request.stream_options, which ChatCompletionRequest does not
\* declare; a non-streaming call runs the Generator and then raises, on the
\* multimodal path at the unbound token_length_info, on the text path at
\* the unpacking of the one string lm_generate returns or, for a string of
\* two characters, at the call of handle_function_calls with three
\* arguments.
ChatCompletion(req, env, ms, uid) ==
    IF MlxMissing(mlx)
    THEN Outcome(500, "MLX library not available", NoLoad(ms), 0, None, <<>>,
                 req.messages)
    ELSE LET r == load_model(ms, req.model, uid)
         IN IF r.raised
            THEN Outcome(500, None, r, 0, None, <<>>, req.messages)
            ELSE IF IsVlm(r.handle.model_type) THEN VlmBranch(req, r)
            ELSE LmBranch(req, env, r)

NoOutcome == Outcome(0, None, NoLoad(<<>>), 0, None, <<>>, <<>>)

\* what the Generator returns for a non-streaming call
GenOutputs == {<<"t">>, <<"JO", "c", "JC">>}

\* the tool configuration's "query" flag for the model's family, whether the
\* tokenizer carries a chat template, and the Generator's output
ChatEnvs == [query : BOOLEAN, has_template : BOOLEAN, output : GenOutputs]

InitChat ==
    /\ mlx \in BOOLEAN
    /\ models = <<>>
    /\ loads = [id \in ModelIds |-> 0]
    /\ removes = [id \in ModelIds |-> 0]
    /\ nextUid = 1
    /\ clients = [p \in Clients |->
                     [pc |-> "idle", req |-> NoRequest, resp |-> NoResponse]]
    /\ issued = 0
    /\ gone = {}
    /\ stream = NoStream
    /\ ext = NoExt
    /\ \E body \in ChatBodies, env \in ChatEnvs :
          call = [pc |-> "body", req |-> body, env |-> env, out |-> NoOutcome]

\* the body does not validate against ChatCompletionRequest: 422
body_rejected ==
    /\ call.pc = "body"
    /\ ~Validates(call.req)
    /\ call' = [call EXCEPT !.pc = "responded", !.out.status = 422,
                            !.out.messages = call.req.messages]
    /\ UNCHANGED <<routerVars, stream, ext>>

\* the body validates and the handler runs to its response
chat_completion_call ==
    /\ call.pc = "body"
    /\ Validates(call.req)
    /\ LET out == ChatCompletion(call.req, call.env, models, nextUid)
       IN /\ call' = [call EXCEPT !.pc = "responded", !.out = out]
          /\ models' = out.load.models
          /\ nextUid' = IF out.load.loaded THEN nextUid + 1 ELSE nextUid
    /\ UNCHANGED <<mlx, loads, removes, clients, issued, gone, stream, ext>>

NextChat == body_rejected \/ chat_completion_call

SpecChat == InitChat /\ [][NextChat]_vars

\* ---------------------------------------------------------------------
\* Claims about one chat-completion request (SpecChat)

Responded == call.pc = "responded" /\ mlx

Multimodal(req) == IsVlm(NewHandle(req.model, 1).model_type)

\* the image references of a message list, in message and part order
RECURSIVE ImagesOfParts(_)
ImagesOfParts(parts) ==
    IF parts = <<>> THEN <<>>
    ELSE (IF Head(parts).type = "image_url" THEN <<Head(parts).val>> ELSE <<>>)
         \o ImagesOfParts(Tail(parts))

RECURSIVE ImagesOf(_)
ImagesOf(msgs) ==
    IF msgs = <<>> THEN <<>>
    ELSE ImagesOfParts(Head(msgs).content.parts) \o ImagesOf(Tail(msgs))

\* C21: a non-streaming completion from a multimodal model is returned
\* verbatim: the response is a success whose content equals the Generator's
\* output and whose call list is empty, whatever the output contains.
C21_VlmVerbatim ==
    (/\ Responded
     /\ Multimodal(call.req)
     /\ ~call.req.stream
     /\ (call.req.image # None \/ ImagesOf(call.req.messages) # <<>>))
    => /\ call.out.status = 200
       /\ call.out.content = call.env.output
       /\ call.out.tool_calls = <<>>

\* C22: a request with an empty message list is answered with a client
\* error (4xx) and the Generator is not invoked, for text-only and
\* multimodal models, with or without tool declarations.
C22_EmptyRejected ==
    (Responded /\ call.req.messages = <<>>)
    => call.out.status \in 400..499 /\ call.out.gen = 0

\* the position of the last user turn, 0 when there is none
LastUser(msgs) ==
    LET users == {i \in 1..Len(msgs) : msgs[i].role = "user"}
    IN IF users = {} THEN 0 ELSE CHOOSE i \in users : \A j \in users : j <= i

\* C25: for a text-only request with tool declarations on a model that is
\* not on the deny-list, a leading system message leaves the list unchanged;
\* otherwise, by the placement flag, either the last user turn alone is
\* rewritten (length unchanged) or one system message is prepended with the
\* original messages in order after it.
C25_ToolPromptPlacement ==
    (/\ Responded
     /\ ~Multimodal(call.req)
     /\ call.req.tools \notin {None, "[]"}
     /\ ToolPromptAllowed(call.req.model))
    => LET old == call.req.messages
           new == call.out.messages
           u == LastUser(old)
       IN IF old # <<>> /\ old[1].role = "system" THEN new = old
          ELSE \/ /\ call.env.query
                  /\ u # 0
                  /\ Len(new) = Len(old)
                  /\ new[u].role = "user"
                  /\ new[u].content # old[u].content
                  /\ \A i \in 1..Len(old) : i # u => new[i] = old[i]
               \/ /\ ~call.env.query
                  /\ Len(new) = Len(old) + 1
                  /\ new[1].role = "system"
                  /\ Tail(new) = old

\* C26: for a multimodal request whose messages hold several image parts,
\* the Generator receives the last image part in message-list order, and
\* chat_messages has one role and text entry per message in the original
\* order.
C26_LastImageUsed ==
    (/\ Responded
     /\ Multimodal(call.req)
     /\ ~call.req.stream
     /\ Len(ImagesOf(call.req.messages)) >= 2)
    => LET images == ImagesOf(call.req.messages)
       IN /\ call.out.gen = 1
          /\ call.out.gen_image = images[Len(images)]
          /\ call.out.chat_messages = Flatten(call.req.messages)

----------------------------------------------------------------------------
(* Further properties of the extractor, checked under SpecExtract *)

\* the pieces of text that are not part of any tool-call encoding
PLAIN == {"t", "w"}

\* C23 as stated: whenever extraction of a matched convention fails, the
\* content of the response is clean text holding none of the tool-call
\* encoding.
C23_FailureYieldsCleanText ==
    (ext.pc = "returned" /\ ext.x.failed)
    => \A i \in 1..Len(ext.response.content) :
          ext.response.content[i] \in PLAIN

\* C23 as the code has it: whenever extraction of a matched convention
\* fails, the content of the response is the raw output as generated, with
\* its encoding left in place; no part of it is cut out or rewritten.
C23_FailureKeepsRawText ==
    (ext.pc = "returned" /\ ext.x.failed)
    => /\ ext.response.content = ext.output
       /\ \E i \in 1..Len(ext.response.content) :
             ext.response.content[i] \notin PLAIN

\* a response after embedded JSON that did not decode, text around it
C23_Witness ==
    /\ ext.pc = "returned"
    /\ ext.x.failed
    /\ ext.x.convention = "json"
    /\ Has(ext.output, "t")
    /\ Has(ext.response.content, "JO")

----------------------------------------------------------------------------
(* Further properties of the stream encoders, checked under SpecStream *)

\* C24: every chunk event carries the model identifier of the request that
\* opened the stream, one choice with index 0, a delta with role
\* "assistant" and finish_reason null; every other event is the [DONE]
\* sentinel, and a stream that has run to its end has it as last event.
C24_ChunkShape ==
    /\ \A i \in 1..Len(stream.out) :
          LET e == stream.out[i]
          IN IF e.type = "chunk"
             THEN /\ e.model = stream.model
                  /\ stream.model \in DOMAIN loads
                  /\ loads[stream.model] = 1
                  /\ e.nchoices = 1
                  /\ e.index = 0
                  /\ e.role = "assistant"
                  /\ e.finish_reason = None
             ELSE e = DONE
    /\ stream.pc \in {"sentinel", "ended"}
          => stream.out # <<>> /\ stream.out[Len(stream.out)] = DONE

\* a stream that relayed every fragment of the Generator and ended
C24_Witness ==
    /\ stream.pc = "ended"
    /\ Len(stream.source) >= 2
    /\ Len(stream.out) = Len(stream.source) + 1
    /\ stream.out[Len(stream.source)].type = "chunk"

\* a fragment matches the configured stop word when Python's "in" finds it
\* there: as an element when a list of words is configured, as a piece of
\* the word when one string is
StopWordFragment(token, stop_words) ==
    /\ stop_words.kind # "none"
    /\ token \in (IF stop_words.kind = "str"
                  THEN Substrings(stop_words.words[1])
                  ELSE {stop_words.words[i] : i \in DOMAIN stop_words.words})

\* the position of the first stop-word fragment, 0 if there is none
FirstHit(s) ==
    LET hits == {i \in 1..Len(s.source) :
                    StopWordFragment(s.source[i], s.stop_words)}
    IN IF hits = {} THEN 0 ELSE CHOOSE i \in hits : \A j \in hits : i <= j

\* C29: in a text-only stream whose Generator yields a fragment matching
\* the configured stop word, the events are the chunks of the fragments before the first such
\* fragment, in order, then the [DONE] sentinel; the Generator is pulled up
\* to that fragment and never again.
C29_StopWordEndsStream ==
    (stream.kind = "lm" /\ FirstHit(stream) # 0)
    => LET h == FirstHit(stream)
           before == [i \in 1..(h - 1) |->
                        Chunk(stream.source[i], stream.model)]
       IN /\ stream.pulled <= h
          /\ \A i \in 1..Len(stream.out) :
                i < h => stream.out[i] = before[i]
          /\ Len(stream.out) <= h
          /\ stream.pc \in {"sentinel", "ended"}
                => stream.pulled = h /\ stream.out = Append(before, DONE)

\* a text-only stream ended by a stop word with fragments on either side
C29_Witness ==
    /\ stream.kind = "lm"
    /\ stream.pc = "ended"
    /\ FirstHit(stream) \in 2..(Len(stream.source) - 1)
    /\ stream.pulled = FirstHit(stream)

----------------------------------------------------------------------------
(* Further properties of the router, checked under Spec *)

\* C27: without MLX a chat completion is answered 500 "MLX library not
\* available" at once: no registry lookup, no load, no generation, and the
\* registry and its counters are as before.
C27_FailFastWithoutMlx ==
    [][\A p \in Clients :
          (chat_completion(p) /\ ~mlx)
          => /\ clients'[p].resp.status = 500
             /\ clients'[p].resp.detail = "MLX library not available"
             /\ clients'[p].resp.handle = NoHandle
             /\ clients'[p].resp.gen = 0
             /\ models' = models
             /\ loads' = loads
             /\ nextUid' = nextUid]_vars

\* a chat completion answered without MLX
C27_Witness ==
    \E p \in Clients :
        /\ Done(p, "chat")
        /\ ~mlx
        /\ clients[p].resp.status = 500
        /\ clients[p].resp.detail = "MLX library not available"

\* the handlers that call load_model
Loads(p) == add_model(p) \/ chat_completion(p)

\* C28: a load_model call for a name that cannot be resolved is answered 500
\* and leaves the registry as it was, without the name; the name was not
\* in the registry before the call either, so every such call attempts the
\* load again, and no listing ever holds it.
C28_FailedLoadNotCached ==
    /\ [](\A id \in DOMAIN models : Resolvable(id))
    /\ [](\A p \in Clients :
            Done(p, "list")
            => \A id \in clients[p].resp.listed : Resolvable(id))
    /\ [][\A p \in Clients :
             (Loads(p) /\ ~Resolvable(clients[p].req.id))
             => /\ NeedsLoad(models, clients[p].req.id)
                /\ clients'[p].resp.status = 500
                /\ clients'[p].resp.handle = NoHandle
                /\ models' = models
                /\ loads' = loads
                /\ clients[p].req.id \notin DOMAIN models']_vars

\* a name that failed to load twice while another name is cached
C28_Witness ==
    /\ mlx
    /\ \E p, q \in Clients :
          /\ p # q
          /\ Done(p, "add") /\ ~Resolvable(clients[p].req.id)
          /\ clients[p].resp.status = 500
          /\ Done(q, "add") /\ clients[q].req.id = clients[p].req.id
          /\ clients[q].resp.status = 500
    /\ DOMAIN models # {}

\* C30: remove_model(id) changes only the entry of id: every other cached
\* name is still cached after it, with the handle it had.
C30_RemoveSparesOthers ==
    [][\A p \in Clients :
          remove_model_endpoint(p)
          => \A id \in (DOMAIN models) \ {RemoveTarget(p)} :
                /\ id \in DOMAIN models'
                /\ models'[id] = models[id]]_vars

\* a removal that succeeded while another name stays cached
C30_Witness ==
    \E p \in Clients :
        /\ Done(p, "remove")
        /\ clients[p].resp.removed
        /\ clients[p].resp.status = 204
        /\ DOMAIN models # {}
        /\ RemoveTarget(p) \notin DOMAIN models

\* a chat completion that passed the validation of its body and was
\* answered with a client error by the handler
RejectedByHandler(p) ==
    /\ Done(p, "chat")
    /\ Validates(clients[p].req)
    /\ clients[p].resp.status \in 400..499

\* C31: chat_completion loads and caches its model before it checks the
\* request, so a request the handler then rejects as a client error leaves
\* its model in the registry: cached by that very call when it was not
\* cached before, still there until a removal, and in every listing given
\* meanwhile.
C31_RejectedRequestCachesModel ==
    /\ [][\A p \in Clients :
             (/\ chat_completion(p)
              /\ clients'[p].resp.status \in 400..499)
             => LET id == clients[p].req.id
                IN /\ id \in DOMAIN models'
                   /\ clients'[p].resp.handle = models'[id]
                   /\ id \notin DOMAIN models
                         => /\ loads'[id] = loads[id] + 1
                            /\ models'[id] = NewHandle(id, nextUid)]_vars
    /\ [](\A p \in Clients :
            (RejectedByHandler(p) /\ clients[p].req.id \notin gone)
            => clients[p].req.id \in DOMAIN models)
    /\ [][\A p, q \in Clients :
             (/\ list_models(q)
              /\ RejectedByHandler(p)
              /\ clients[p].req.id \notin gone)
             => clients[p].req.id \in clients'[q].resp.listed]_vars

\* the only two requests sent: a multimodal chat completion with no image,
\* answered 400 after loading its model, and a listing that shows the model
C31_Witness ==
    /\ issued = 2
    /\ \E p, q \in Clients :
          /\ RejectedByHandler(p)
          /\ clients[p].resp.status = 400
          /\ loads[clients[p].req.id] = 1
          /\ Done(q, "list")
          /\ clients[p].req.id \in clients[q].resp.listed

====
